---------------------------- MODULE Spec2Model ----------------------------
(***************************************************************************)
(* A model of src/app.py: the ZATCA TLV / base64 payload encoder, the      *)
(* input normalisers, the QR and Code-128 button handlers, and the PDF     *)
(* metadata panel with its CreationDate/ModDate synchronisation.           *)
(*                                                                         *)
(* Text is a sequence of Unicode code points, bytes are a sequence of      *)
(* numbers in 0..255.  A call either returns a value or raises.            *)
(***************************************************************************)
EXTENDS Integers, Sequences, FiniteSets, TLC

VARIABLES
    call,           \* a function called on its own: its arguments and result
    session_state,  \* st.session_state: the keys present and their values
    env,            \* the host of the process: its local time zone
    shown,          \* what the last script run put on the page
    ref,            \* history: the first QR generation, its inputs and output
    code128_text,   \* the value of the Code-128 text input
    up,             \* the file in the PDF uploader, NoFile when it is empty
    before_sync     \* history: the date fields when the last run entered
                    \* the synchronisation block

vars == <<call, session_state, env, shown, ref, code128_text, up, before_sync>>

(***************************************************************************)
(* Bounds of the model.                                                    *)
(***************************************************************************)
\* longest text enumerated exhaustively over the alphabet
MaxShort == 2
\* how far around the 255-byte limit the long texts reach
Margin == 1

(***************************************************************************)
(* Results of a Python call.                                               *)
(***************************************************************************)
Ok(v) == [ok |-> TRUE, val |-> v, exc |-> "none"]

Raise(e) == [ok |-> FALSE, val |-> <<>>, exc |-> e]

(***************************************************************************)
(* Text and bytes.                                                         *)
(***************************************************************************)
Rep(c, n) == [i \in 1..n |-> c]

RECURSIVE JoinRange(_, _, _)
JoinRange(ss, lo, hi) ==
    IF lo > hi THEN <<>>
    ELSE IF lo = hi THEN ss[lo]
    ELSE LET mid == (lo + hi) \div 2
         IN  JoinRange(ss, lo, mid) \o JoinRange(ss, mid + 1, hi)

\* b"".join(ss) and "".join(ss)
Flatten(ss) == JoinRange(ss, 1, Len(ss))

\* str.encode("utf-8") of one code point
Utf8Char(cp) ==
    IF cp < 128 THEN <<cp>>
    ELSE IF cp < 2048 THEN <<192 + (cp \div 64), 128 + (cp % 64)>>
    ELSE IF cp < 65536
        THEN <<224 + (cp \div 4096), 128 + ((cp \div 64) % 64), 128 + (cp % 64)>>
    ELSE <<240 + (cp \div 262144), 128 + ((cp \div 4096) % 64),
           128 + ((cp \div 64) % 64), 128 + (cp % 64)>>

\* val.encode("utf-8")
encode_utf8(s) == Flatten([i \in 1..Len(s) |-> Utf8Char(s[i])])

(***************************************************************************)
(* _tlv and build_zatca_base64.                                            *)
(***************************************************************************)
\* the largest value a TLV length byte carries
TLV_MAX == 255

\* line 60-61 on the encoded value b
tlv_of(tag, b) ==
    IF Len(b) > TLV_MAX THEN Raise("ValueError")
    ELSE IF tag \notin 0..255 THEN Raise("ValueError")
    ELSE Ok(<<tag, Len(b)>> \o b)

\* _tlv with the number of characters in the length byte
_tlv_char_count(tag, val) ==
    IF ~tlv_of(tag, encode_utf8(val)).ok THEN Raise("ValueError")
    ELSE Ok(<<tag, Len(val)>> \o encode_utf8(val))

_tlv(tag, val) == tlv_of(tag, encode_utf8(val))

\* the base64 alphabet of RFC 4648
B64Char(s) ==
    IF s < 26 THEN 65 + s
    ELSE IF s < 52 THEN 97 + (s - 26)
    ELSE IF s < 62 THEN 48 + (s - 52)
    ELSE IF s = 62 THEN 43 ELSE 47

\* base64.b64encode(bs).decode("ascii"): padded, no line breaks
b64encode(bs) ==
    LET n == Len(bs)
        At(i) == IF i <= n THEN bs[i] ELSE 0
        Quad(g) ==
            LET i == 3 * (g - 1)
                b0 == At(i + 1)
                b1 == At(i + 2)
                b2 == At(i + 3)
            IN  << B64Char(b0 \div 4),
                   B64Char(((b0 % 4) * 16) + (b1 \div 16)),
                   IF i + 2 <= n THEN B64Char(((b1 % 16) * 4) + (b2 \div 64)) ELSE 61,
                   IF i + 3 <= n THEN B64Char(b2 % 64) ELSE 61 >>
    IN  [k \in 1..(4 * ((n + 2) \div 3)) |-> Quad(((k - 1) \div 4) + 1)[((k - 1) % 4) + 1]]

Min(S) == CHOOSE i \in S : \A j \in S : i <= j

Max(S) == CHOOSE i \in S : \A j \in S : i >= j

\* line 64-65 on the results of the five _tlv calls: the list is evaluated
\* left to right, and the first exception leaves the function
join_parts(parts, bad) ==
    IF bad # {} THEN Raise(parts[Min(bad)].exc)
    ELSE Ok(b64encode(Flatten([i \in 1..5 |-> parts[i].val])))

\* join_parts leaving out the fields that do not fit
join_fitting(parts, bad) ==
    Ok(b64encode(Flatten([i \in 1..5 |-> IF i \in bad THEN <<>> ELSE parts[i].val])))

failed(parts) == {i \in 1..5 : ~parts[i].ok}

build_parts(parts) == join_parts(parts, failed(parts))

\* build_zatca_base64 leaving out the fields that do not fit
build_skip_oversize(seller, vat, dt_iso, total, vat_s) ==
    join_fitting(<< _tlv(1, seller), _tlv(2, vat), _tlv(3, dt_iso),
                    _tlv(4, total), _tlv(5, vat_s) >>,
                 failed(<< _tlv(1, seller), _tlv(2, vat), _tlv(3, dt_iso),
                           _tlv(4, total), _tlv(5, vat_s) >>))

\* build_zatca_base64 with the total and the VAT amount exchanged
build_swapped_amounts(seller, vat, dt_iso, total, vat_s) ==
    build_parts(<< _tlv(1, seller), _tlv(2, vat), _tlv(3, dt_iso),
                   _tlv(4, vat_s), _tlv(5, total) >>)

build_zatca_base64(seller, vat, dt_iso, total, vat_s) ==
    build_parts(<< _tlv(1, seller), _tlv(2, vat), _tlv(3, dt_iso),
                   _tlv(4, total), _tlv(5, vat_s) >>)

(***************************************************************************)
(* _fmt2: Decimal(x), quantize to 0.01 with ROUND_HALF_UP, format "f".     *)
(* A Decimal is [kind, sign, digits, exp]: kind is "finite", "inf", "nan"  *)
(* or "snan"; digits is the coefficient without leading zeros (<<>> is 0). *)
(***************************************************************************)
\* str.isspace, the characters str.strip() and Decimal() remove at both ends
IsSpace(c) ==
    \/ c \in 9..13 \/ c \in 28..32 \/ c \in {133, 160, 5760}
    \/ c \in 8192..8202 \/ c \in {8232, 8233, 8239, 8287, 12288}

strip_to(s, keep) == IF keep = {} THEN <<>> ELSE SubSeq(s, Min(keep), Max(keep))

\* s.strip()
Strip(s) == strip_to(s, {i \in 1..Len(s) : ~IsSpace(s[i])})

\* the value of a Unicode decimal digit (category Nd), -1 for other characters
DecimalDigit(c) ==
    IF c \in 48..57 THEN c - 48
    ELSE IF c \in 1632..1641 THEN c - 1632
    ELSE IF c \in 1776..1785 THEN c - 1776
    ELSE -1

IsAsciiDigit(c) == c \in 48..57

Lower(c) == IF c \in 65..90 THEN c + 32 ELSE c

LowerText(s) == [i \in 1..Len(s) |-> Lower(s[i])]

SelectSeqIdx(s, keep) ==
    LET RECURSIVE Go(_)
        Go(i) == IF i > Len(s) THEN <<>>
                 ELSE (IF i \in keep THEN <<s[i]>> ELSE <<>>) \o Go(i + 1)
    IN  Go(1)

\* Unicode digits and spaces replaced by ASCII ones; <<0>> marks a
\* character that is neither
map_ascii(u) ==
    IF \E i \in 1..Len(u) : u[i] > 127 /\ ~IsSpace(u[i]) /\ DecimalDigit(u[i]) < 0
    THEN <<0>>
    ELSE [i \in 1..Len(u) |->
            IF u[i] <= 127 THEN u[i]
            ELSE IF IsSpace(u[i]) THEN 32
            ELSE 48 + DecimalDigit(u[i])]

drop_underscores(t) == SelectSeqIdx(t, {i \in 1..Len(t) : t[i] # 95})

\* the decimal constructor's view of the text: stripped, underscores dropped
AsAscii(x) == map_ascii(drop_underscores(Strip(x)))

strip_zeros_from(ds, nz) == IF nz = {} THEN <<>> ELSE SubSeq(ds, Min(nz), Len(ds))

StripZeros(ds) == strip_zeros_from(ds, {i \in 1..Len(ds) : ds[i] # 0})

RECURSIVE DigitsVal(_)
DigitsVal(ds) ==
    IF ds = <<>> THEN 0 ELSE (DigitsVal(SubSeq(ds, 1, Len(ds) - 1)) * 10) + ds[Len(ds)]

AllDigits(a) == \A i \in 1..Len(a) : IsAsciiDigit(a[i])

ToDigits(a) == [i \in 1..Len(a) |-> a[i] - 48]

Invalid == [kind |-> "invalid", sign |-> 0, digits |-> <<>>, exp |-> 0]

Special(kind, sign, payload) ==
    [kind |-> kind, sign |-> sign, digits |-> StripZeros(ToDigits(payload)), exp |-> 0]

IsSigned(a) == Len(a) >= 1 /\ a[1] \in {43, 45}

Unsign(a) == IF IsSigned(a) THEN SubSeq(a, 2, Len(a)) ELSE a

IsMinus(a) == Len(a) >= 1 /\ a[1] = 45

\* the number with integer digits ipart, fraction digits fpart and, with
\* has_e, the exponent expo
parse_fields(sign, ipart, fpart, has_e, expo) ==
    IF /\ AllDigits(ipart) /\ AllDigits(fpart)
       /\ Len(ipart) + Len(fpart) >= 1
       /\ (has_e => Len(Unsign(expo)) >= 1 /\ AllDigits(Unsign(expo)))
    THEN [kind |-> "finite", sign |-> sign,
          digits |-> StripZeros(ToDigits(ipart \o fpart)),
          exp |-> (IF ~has_e THEN 0
                   ELSE IF IsMinus(expo) THEN 0 - DigitsVal(ToDigits(Unsign(expo)))
                   ELSE DigitsVal(ToDigits(Unsign(expo)))) - Len(fpart)]
    ELSE Invalid

\* the mantissa split at its point, if it has one
parse_mantissa(sign, mant, dots, has_e, expo) ==
    IF Cardinality(dots) > 1 THEN Invalid
    ELSE IF dots = {} THEN parse_fields(sign, mant, <<>>, has_e, expo)
    ELSE parse_fields(sign, SubSeq(mant, 1, Min(dots) - 1),
                      SubSeq(mant, Min(dots) + 1, Len(mant)), has_e, expo)

split_mantissa(sign, mant, has_e, expo) ==
    parse_mantissa(sign, mant, {i \in 1..Len(mant) : mant[i] = 46}, has_e, expo)

\* the numeric string split at its first "e"
parse_number(sign, low, es) ==
    IF es = {} THEN split_mantissa(sign, low, FALSE, <<>>)
    ELSE split_mantissa(sign, SubSeq(low, 1, Min(es) - 1), TRUE,
                        SubSeq(low, Min(es) + 1, Len(low)))

\* "inf", "infinity", "nan<digits>", "snan<digits>" or a numeric string
parse_body(sign, low) ==
    IF low \in {<<105, 110, 102>>, <<105, 110, 102, 105, 110, 105, 116, 121>>}
        THEN Special("inf", sign, <<>>)
    ELSE IF Len(low) >= 3 /\ SubSeq(low, 1, 3) = <<110, 97, 110>>
            /\ AllDigits(SubSeq(low, 4, Len(low)))
        THEN Special("nan", sign, SubSeq(low, 4, Len(low)))
    ELSE IF Len(low) >= 4 /\ SubSeq(low, 1, 4) = <<115, 110, 97, 110>>
            /\ AllDigits(SubSeq(low, 5, Len(low)))
        THEN Special("snan", sign, SubSeq(low, 5, Len(low)))
    ELSE parse_number(sign, low, {i \in 1..Len(low) : low[i] = 101})

parse_ascii(a) == parse_body(IF IsMinus(a) THEN 1 ELSE 0, LowerText(Unsign(a)))

\* Decimal(x): the parse of the numeric string (the exponents of the inputs
\* are short, far from the limits of the decimal module)
ParseDecimal(x) == parse_ascii(AsAscii(x))

\* the precision of the default decimal context
PREC == 28

\* a coefficient plus one
RECURSIVE Increment(_)
Increment(ds) ==
    IF ds = <<>> THEN <<1>>
    ELSE IF ds[Len(ds)] < 9 THEN [ds EXCEPT ![Len(ds)] = @ + 1]
    ELSE Append(Increment(SubSeq(ds, 1, Len(ds) - 1)), 0)

\* padded without its last k digits, plus one when the first digit dropped
\* is 5 or more: ROUND_HALF_UP rounds a tie away from zero
drop_digits(padded, k) ==
    StripZeros(IF padded[Len(padded) - k + 1] >= 5
               THEN Increment(SubSeq(padded, 1, Len(padded) - k))
               ELSE SubSeq(padded, 1, Len(padded) - k))

\* the coefficient at exponent -2
round_half_up(ds, exp) ==
    IF exp >= -2 THEN ds \o Rep(0, exp + 2)
    ELSE drop_digits(IF Len(ds) < (0 - 2) - exp
                     THEN Rep(0, ((0 - 2) - exp) - Len(ds)) \o ds ELSE ds,
                     (0 - 2) - exp)

quantized(q, r) ==
    IF Len(r) > PREC THEN Raise("InvalidOperation")
    ELSE Ok([q EXCEPT !.digits = r, !.exp = -2])

\* q.quantize(Decimal("0.01"), rounding=ROUND_HALF_UP)
quantize(q) ==
    IF q.kind = "nan" THEN Ok(q)
    ELSE IF q.kind \in {"snan", "inf"} THEN Raise("InvalidOperation")
    ELSE IF q.digits = <<>> THEN Ok([q EXCEPT !.exp = -2])
    ELSE IF (q.exp + Len(q.digits) - 1) + 2 + 1 > PREC THEN Raise("InvalidOperation")
    ELSE quantized(q, round_half_up(q.digits, q.exp))

AsText(ds) == [i \in 1..Len(ds) |-> 48 + ds[i]]

\* sign, integer digits, point, two fraction digits
format_digits(sign, ds) ==
    (IF sign = 1 THEN <<45>> ELSE <<>>) \o AsText(SubSeq(ds, 1, Len(ds) - 2))
        \o <<46>> \o AsText(SubSeq(ds, Len(ds) - 1, Len(ds)))

\* format(d, "f") of a NaN or of a number with exponent -2
format_f(d) ==
    IF d.kind = "nan"
    THEN (IF d.sign = 1 THEN <<45>> ELSE <<>>) \o <<78, 97, 78>> \o AsText(d.digits)
    ELSE format_digits(d.sign, IF Len(d.digits) < 3
                               THEN Rep(0, 3 - Len(d.digits)) \o d.digits
                               ELSE d.digits)

\* line 48: an unparsable text counts as zero
or_zero(p) ==
    IF p.kind = "invalid"
    THEN [kind |-> "finite", sign |-> 0, digits |-> <<>>, exp |-> 0]
    ELSE p

format_result(r) == IF r.ok THEN Ok(format_f(r.val)) ELSE r

_fmt2(x) == format_result(quantize(or_zero(ParseDecimal(x))))

(***************************************************************************)
(* _clean_vat, _iso_utc, make_qr.                                          *)
(***************************************************************************)
\* re.sub(r"\D", "", v): on str, \D is every character that is no Unicode
\* decimal digit, so the digits of every script are kept
_clean_vat(v) == SelectSeqIdx(v, {i \in 1..Len(v) : DecimalDigit(v[i]) >= 0})

IsLeap(y) == (y % 4 = 0 /\ y % 100 # 0) \/ y % 400 = 0

DaysIn(y, m) ==
    IF m = 2 THEN (IF IsLeap(y) THEN 29 ELSE 28)
    ELSE IF m \in {4, 6, 9, 11} THEN 30 ELSE 31

PrevDay(d) ==
    IF d[3] > 1 THEN <<d[1], d[2], d[3] - 1>>
    ELSE IF d[2] > 1 THEN <<d[1], d[2] - 1, DaysIn(d[1], d[2] - 1)>>
    ELSE <<d[1] - 1, 12, 31>>

NextDay(d) ==
    IF d[3] < DaysIn(d[1], d[2]) THEN <<d[1], d[2], d[3] + 1>>
    ELSE IF d[2] < 12 THEN <<d[1], d[2] + 1, 1>>
    ELSE <<d[1] + 1, 1, 1>>

\* local_dt.astimezone(timezone.utc): the naive value is read in the local
\* zone of the host, off hours east of UTC
astimezone_utc(d, t, off) ==
    LET h == t[1] - off
    IN  IF h < 0 THEN <<PrevDay(d), <<h + 24, t[2], t[3]>> >>
        ELSE IF h >= 24 THEN <<NextDay(d), <<h - 24, t[2], t[3]>> >>
        ELSE <<d, <<h, t[2], t[3]>> >>

RECURSIVE Pow10(_)
Pow10(n) == IF n = 0 THEN 1 ELSE 10 * Pow10(n - 1)

\* a number as w digits
Pad(n, w) == [i \in 1..w |-> 48 + ((n \div Pow10(w - i)) % 10)]

\* strftime("%Y-%m-%dT%H:%M:%SZ")
strftime_iso(d, t) ==
    Pad(d[1], 4) \o <<45>> \o Pad(d[2], 2) \o <<45>> \o Pad(d[3], 2) \o <<84>>
        \o Pad(t[1], 2) \o <<58>> \o Pad(t[2], 2) \o <<58>> \o Pad(t[3], 2) \o <<90>>

strftime_pair(u) == strftime_iso(u[1], u[2])

_iso_utc(d, t, e) ==
    IF e.convert_ok THEN strftime_pair(astimezone_utc(d, t, e.offset))
    ELSE strftime_iso(d, t)

\* the bytes a version 14 symbol with error correction M holds in byte mode
QR_CAPACITY == 362

\* make_qr: fit=False, so data beyond the capacity of the fixed version raises
make_qr(b64) ==
    IF Len(b64) > QR_CAPACITY THEN Raise("DataOverflowError") ELSE Ok(b64)

(***************************************************************************)
(* The page: what a script run shows.                                      *)
(***************************************************************************)
\* the uploader holds no file; a page offers no file
NoFile == [name |-> "", pages |-> 0, metadata |-> <<>>]

\* the run did not reach the synchronisation block
NoSync == [ran |-> FALSE, auto |-> FALSE,
           c_now |-> <<>>, m_now |-> <<>>, pc |-> <<>>, pm |-> <<>>]

Nothing == [panel |-> "none", kind |-> "none", exc |-> "none",
            text |-> <<>>, image |-> <<>>, file |-> NoFile]

\* line 247, executed by every run
SetQrTime(ss) ==
    [ss EXCEPT !.qr_time = <<ss.qr_time_hm[1], ss.qr_time_hm[2], ss.qr_secs>>]

QrPage == [Nothing EXCEPT !.panel = "qr"]

\* lines 263-266: st.code, make_qr, st.image
qr_show(text, img) ==
    IF ~img.ok THEN [QrPage EXCEPT !.kind = "exception", !.exc = img.exc, !.text = text]
    ELSE [QrPage EXCEPT !.kind = "ok", !.text = text, !.image = img.val]

qr_emit(b64) ==
    IF ~b64.ok THEN [QrPage EXCEPT !.kind = "exception", !.exc = b64.exc]
    ELSE qr_show(b64.val, make_qr(b64.val))

\* lines 256-262: the arguments are evaluated in order, then the call
qr_encode(seller, vclean, iso, total, vat_s) ==
    IF ~total.ok THEN [QrPage EXCEPT !.kind = "exception", !.exc = total.exc]
    ELSE IF ~vat_s.ok THEN [QrPage EXCEPT !.kind = "exception", !.exc = vat_s.exc]
    ELSE qr_emit(build_zatca_base64(seller, vclean, iso, total.val, vat_s.val))

\* lines 252-262
qr_gate(ss, e, vclean) ==
    IF Len(vclean) # 15 THEN [QrPage EXCEPT !.kind = "error"]
    ELSE qr_encode(Strip(ss.qr_seller), vclean, _iso_utc(ss.qr_date, ss.qr_time, e),
                   _fmt2(ss.qr_total), _fmt2(ss.qr_vat))

\* lines 250-266: the body of  if st.button("...QR")
qr_button(ss, e) == qr_gate(ss, e, _clean_vat(ss.qr_vat_number))

(***************************************************************************)
(* Inputs.                                                                 *)
(***************************************************************************)
\* 'A', ' ', '1', e-acute (2 bytes), euro sign (3 bytes), U+1F600 (4 bytes)
Alphabet == {65, 32, 49, 233, 8364, 128512}

Width(c) == Len(Utf8Char(c))

RECURSIVE TextsUpTo(_)
TextsUpTo(n) ==
    IF n = 0 THEN {<<>>}
    ELSE LET T == TextsUpTo(n - 1)
         IN  T \cup {Append(t, c) : t \in T, c \in Alphabet}

\* runs of one character whose UTF-8 length lies around the limit
LongTexts ==
    {Rep(c, n) : c \in Alphabet,
                 n \in ((TLV_MAX \div 4) - Margin)..(TLV_MAX + Margin)}

AroundLimit ==
    {t \in LongTexts :
        /\ Len(t) * Width(t[1]) >= TLV_MAX - Margin * Width(t[1])
        /\ Len(t) * Width(t[1]) <= TLV_MAX + Margin * Width(t[1])}

TlvTexts == TextsUpTo(MaxShort) \cup AroundLimit

TlvTags == {1, 2, 5, 128, 255}

BuildTexts ==
    {<<>>, <<65>>, <<233, 49>>} \cup {Rep(97, n) : n \in TLV_MAX..(TLV_MAX + Margin)}

(***************************************************************************)
(* The functions called on their own.                                      *)
(***************************************************************************)
\* a call that has been made but has not returned yet
Pending(fn, args) == [fn |-> fn, args |-> args, done |-> FALSE, ret |-> Ok(<<>>)]

Returned(c, r) == [c EXCEPT !.done = TRUE, !.ret = r]

NoCall == Pending("none", <<>>)

\* lines 29-41: the session of a page opened on date d at time hm:sec
Defaults(d, hm, sec) ==
    [qr_total |-> <<48, 46, 48, 48>>, qr_vat |-> <<48, 46, 48, 48>>,
     qr_date |-> d, qr_time |-> <<hm[1], hm[2], sec>>,
     qr_vat_number |-> <<>>, qr_seller |-> <<>>,
     qr_time_hm |-> hm, qr_secs |-> sec, qr_initialized |-> TRUE]

NoRef == [set |-> FALSE, in |-> <<>>, out |-> Nothing]

\* the page while the functions are exercised on their own
PageIdle ==
    /\ session_state = Defaults(<<2024, 1, 1>>, <<12, 0>>, 0)
    /\ env = [offset |-> 0, convert_ok |-> TRUE]
    /\ shown = Nothing
    /\ ref = NoRef
    /\ code128_text = <<>>
    /\ up = NoFile
    /\ before_sync = NoSync

TlvCalls == {Pending("_tlv", <<tag, val>>) : tag \in TlvTags, val \in TlvTexts}

BuildCalls ==
    {Pending("build_zatca_base64", <<f1, f2, f3, f4, f5>>) :
        f1 \in BuildTexts, f2 \in BuildTexts, f3 \in BuildTexts,
        f4 \in BuildTexts, f5 \in BuildTexts}

FnInit == call \in TlvCalls \cup BuildCalls /\ PageIdle

Call_tlv ==
    /\ call.fn = "_tlv" /\ ~call.done
    /\ UNCHANGED <<session_state, env, shown, ref, code128_text, up, before_sync>>
    /\ call' = Returned(call, _tlv(call.args[1], call.args[2]))

Call_build ==
    /\ call.fn = "build_zatca_base64" /\ ~call.done
    /\ UNCHANGED <<session_state, env, shown, ref, code128_text, up, before_sync>>
    /\ call' = Returned(call, build_zatca_base64(call.args[1], call.args[2],
                            call.args[3], call.args[4], call.args[5]))

FnNext == Call_tlv \/ Call_build

SpecFn == FnInit /\ [][FnNext]_vars

(***************************************************************************)
(* _fmt2 called on its own.                                                *)
(***************************************************************************)
\* longest amount text enumerated exhaustively
MaxAmountLen == 4

\* '0', '1', '5', '9', '.', '-', 'e', 'a'
AmountAlphabet == {48, 49, 53, 57, 46, 45, 101, 97}

RECURSIVE AmountsUpTo(_)
AmountsUpTo(n) ==
    IF n = 0 THEN {<<>>}
    ELSE LET T == AmountsUpTo(n - 1)
         IN  T \cup {Append(t, c) : t \in T, c \in AmountAlphabet}

\* "10.005", "115.00", " 10 ", "1_0", Arabic-Indic "3.5", "NaN", "sNaN",
\* "Infinity", "-inf", "1e25", "1E26", 26 nines and ".995", "-0.005"
AmountSpecials ==
    { <<49, 48, 46, 48, 48, 53>>, <<49, 49, 53, 46, 48, 48>>, <<32, 49, 48, 32>>,
      <<49, 95, 48>>, <<1635, 46, 1637>>, <<78, 97, 78>>, <<115, 78, 97, 78>>,
      <<73, 110, 102, 105, 110, 105, 116, 121>>, <<45, 105, 110, 102>>,
      <<49, 101, 50, 53>>, <<49, 69, 50, 54>>,
      Rep(57, 26) \o <<46, 57, 57, 53>>, <<45, 48, 46, 48, 48, 53>> }

AmountTexts == AmountsUpTo(MaxAmountLen) \cup AmountSpecials

FmtCalls == {Pending("_fmt2", <<x>>) : x \in AmountTexts}

FmtInit == call \in FmtCalls /\ PageIdle

Call_fmt2 ==
    /\ call.fn = "_fmt2" /\ ~call.done
    /\ UNCHANGED <<session_state, env, shown, ref, code128_text, up, before_sync>>
    /\ call' = Returned(call, _fmt2(call.args[1]))

FmtNext == Call_fmt2

SpecFmt == FmtInit /\ [][FmtNext]_vars

(***************************************************************************)
(* The QR panel: its widgets and its button.                               *)
(***************************************************************************)
\* UTC, Riyadh, New York; convert_ok is FALSE on a host where astimezone raises
Envs == {[offset |-> o, convert_ok |-> c] : o \in {0, 3, -5}, c \in BOOLEAN}

\* hosts on which the conversion to UTC works
DetEnvs == {e \in Envs : e.convert_ok}

Dates == {<<2024, 1, 1>>, <<2024, 2, 29>>}

Times == {<<0, 30>>, <<23, 59>>}

Secs == {0, 59}

\* "", "  ", "Acme", " Acme-acute ", 256 times "a"
QrSellers ==
    {<<>>, <<32, 32>>, <<65, 99, 109, 101>>, <<32, 65, 99, 109, 233, 32>>,
     Rep(97, TLV_MAX + 1)}

Digits15 == [i \in 1..15 |-> 48 + (i % 10)]

\* "", "12345", 15 digits, "SA-" and 15 digits, 16 digits, 15 Arabic-Indic
\* digits, 14 digits and one Arabic-Indic digit
QrVatNumbers ==
    {<<>>, <<49, 50, 51, 52, 53>>, Digits15, <<83, 65, 45>> \o Digits15,
     Append(Digits15, 54), [i \in 1..15 |-> 1632 + (i % 10)],
     SubSeq(Digits15, 1, 14) \o <<1637>>}

\* "0.00", "115.00", "10.005", "abc", "Infinity"
QrTotals ==
    {<<48, 46, 48, 48>>, <<49, 49, 53, 46, 48, 48>>, <<49, 48, 46, 48, 48, 53>>,
     <<97, 98, 99>>, <<73, 110, 102, 105, 110, 105, 116, 121>>}

\* "0.00", "15.00"
QrVats == {<<48, 46, 48, 48>>, <<49, 53, 46, 48, 48>>}

SixInputs(ss) ==
    <<ss.qr_seller, ss.qr_vat_number, ss.qr_total, ss.qr_vat, ss.qr_date, ss.qr_time>>

\* a widget of the panel takes the value v and the script runs again
Rerun(key, v) ==
    /\ session_state' = SetQrTime([session_state EXCEPT ![key] = v])
    /\ shown' = Nothing
    /\ UNCHANGED <<call, env, ref, code128_text, up, before_sync>>

EditVatNumber(S) == \E v \in S : Rerun("qr_vat_number", v)

EditSeller(S) == \E v \in S : Rerun("qr_seller", v)

EditTotal(S) == \E v \in S : Rerun("qr_total", v)

EditVat(S) == \E v \in S : Rerun("qr_vat", v)

EditTime(S) == \E v \in S : Rerun("qr_time_hm", v)

EditSecs(S) == \E v \in S : Rerun("qr_secs", v)

EditDate(S) == \E v \in S : Rerun("qr_date", v)

\* the button is pressed: the script runs with st.button(...) true; with
\* record, the first generation is remembered in ref
ClickQR(record) ==
    /\ session_state' = SetQrTime(session_state)
    /\ shown' = qr_button(session_state', env)
    /\ ref' = IF record /\ ~ref.set
              THEN [set |-> TRUE, in |-> SixInputs(session_state'), out |-> shown']
              ELSE ref
    /\ UNCHANGED <<call, env, code128_text, up, before_sync>>

\* the application is started on another host and the page is opened anew
Redeploy(D, T, S) ==
    /\ env' \in DetEnvs
    /\ \E d \in D, t \in T, sec \in S : session_state' = Defaults(d, t, sec)
    /\ shown' = Nothing
    /\ UNCHANGED <<call, ref, code128_text, up, before_sync>>

QrInit ==
    /\ call = NoCall
    /\ env \in Envs
    /\ \E d \in Dates, t \in Times, sec \in Secs : session_state = Defaults(d, t, sec)
    /\ shown = Nothing
    /\ ref = NoRef
    /\ code128_text = <<>>
    /\ up = NoFile
    /\ before_sync = NoSync

QrNext ==
    \/ EditVatNumber(QrVatNumbers)
    \/ EditSeller(QrSellers)
    \/ EditTotal(QrTotals)
    \/ EditVat(QrVats)
    \/ EditTime(Times)
    \/ EditSecs(Secs)
    \/ EditDate(Dates)
    \/ ClickQR(FALSE)

SpecQR == QrInit /\ [][QrNext]_vars

\* the same panel observed across hosts, with fewer values per widget
DetDates == {<<2024, 1, 1>>}

DetInit ==
    /\ call = NoCall
    /\ env \in DetEnvs
    /\ \E t \in Times, sec \in Secs : session_state = Defaults(<<2024, 1, 1>>, t, sec)
    /\ shown = Nothing
    /\ ref = NoRef
    /\ code128_text = <<>>
    /\ up = NoFile
    /\ before_sync = NoSync

DetNext ==
    \/ EditVatNumber({Digits15})
    \/ EditSeller({<<65, 99, 109, 101>>})
    \/ EditTotal({<<49, 49, 53, 46, 48, 48>>})
    \/ EditVat({<<49, 53, 46, 48, 48>>})
    \/ EditTime(Times)
    \/ EditSecs(Secs)
    \/ EditDate(DetDates)
    \/ ClickQR(TRUE)
    \/ Redeploy(DetDates, Times, Secs)

SpecDet == DetInit /\ [][DetNext]_vars

(***************************************************************************)
(* The Code-128 panel.                                                     *)
(***************************************************************************)
\* longest text typed into the Code-128 input
MaxCodeLen == 3

\* s.translate(ARABIC_DIGITS)
translate_arabic(s) ==
    [i \in 1..Len(s) |-> IF s[i] \in 1632..1641 THEN 48 + (s[i] - 1632) ELSE s[i]]

\* the class of line 81: U+200E, U+200F, U+202A..U+202E, U+2066..U+2069, U+FEFF
IsBidiControl(c) ==
    c \in {8206, 8207} \/ c \in 8234..8238 \/ c \in 8294..8297 \/ c = 65279

\* re.sub(r"[...]", "", s)
remove_bidi(s) == SelectSeqIdx(s, {i \in 1..Len(s) : ~IsBidiControl(s[i])})

\* "".join(ch for ch in s if ord(ch) < 128)
keep_ascii(s) == SelectSeqIdx(s, {i \in 1..Len(s) : s[i] < 128})

\* sanitize without the translation of the Arabic-Indic digits
sanitize_no_translate(s) == Strip(keep_ascii(remove_bidi(s)))

sanitize(s) == Strip(keep_ascii(remove_bidi(translate_arabic(s))))

\* render_code128 and resize_code128: the picture of the data
render_code128(data) == Ok(data)

\* lines 230-236: the body of  if st.button("... Code-128")
code128_show(s) ==
    IF s = <<>> THEN [Nothing EXCEPT !.panel = "code128", !.kind = "error"]
    ELSE [Nothing EXCEPT !.panel = "code128", !.kind = "ok",
                         !.text = s, !.image = render_code128(s).val]

code128_button(v) == code128_show(sanitize(v))

\* 'A', ' ', '7', Arabic-Indic 3, LEFT-TO-RIGHT MARK, e-acute,
\* UNIT SEPARATOR (a space for str.strip), NO-BREAK SPACE
CodeAlphabet == {65, 32, 55, 1635, 8206, 233, 31, 160}

\* a character is typed and the script runs again
TypeCode128 ==
    /\ Len(code128_text) < MaxCodeLen
    /\ \E c \in CodeAlphabet : code128_text' = Append(code128_text, c)
    /\ shown' = Nothing
    /\ UNCHANGED <<call, session_state, env, ref, up, before_sync>>

ClearCode128 ==
    /\ code128_text' = <<>>
    /\ shown' = Nothing
    /\ UNCHANGED <<call, session_state, env, ref, up, before_sync>>

ClickCode128 ==
    /\ shown' = code128_button(code128_text)
    /\ UNCHANGED <<call, session_state, env, ref, code128_text, up, before_sync>>

CodeInit == call = NoCall /\ PageIdle

CodeNext == TypeCode128 \/ ClearCode128 \/ ClickCode128

SpecCode == CodeInit /\ [][CodeNext]_vars

(***************************************************************************)
(* PDF metadata: the date transcoders, read_meta and write_meta.           *)
(*                                                                         *)
(* A PDF file is its name, its pages and its information dictionary, a     *)
(* sequence of [key, val] entries in the order of the document.            *)
(***************************************************************************)
BASE_KEYS ==
    <<"/ModDate", "/CreationDate", "/Producer", "/Title",
      "/Author", "/Subject", "/Keywords", "/Creator">>

\* the keys of  k in ("/CreationDate", "/ModDate")
DateKeys == {"/CreationDate", "/ModDate"}

Range(s) == {s[i] : i \in 1..Len(s)}

StartsWith(s, p) == Len(s) >= Len(p) /\ SubSeq(s, 1, Len(p)) = p

\* \d of a str pattern: a decimal digit of any script
IsDigit(c) == DecimalDigit(c) >= 0

\* int() of a text of decimal digits
int_digits(f) == DigitsVal([i \in 1..Len(f) |-> DecimalDigit(f[i])])

\* int() of the day group, which may start with a space
int_day(f) == IF f[1] = 32 THEN int_digits(Tail(f)) ELSE int_digits(f)

\* datetime(y, M, d, H, m, sec) raises ValueError outside these ranges
datetime_ok(u) ==
    /\ u[1] \in 1..9999 /\ u[2] \in 1..12
    /\ u[3] >= 1 /\ u[3] <= DaysIn(u[1], u[2])
    /\ u[4] \in 0..23 /\ u[5] \in 0..59 /\ u[6] \in 0..59

\* %Y: the C library writes a year below 1000 without leading zeros
strftime_Y(y) ==
    IF y >= 1000 THEN Pad(y, 4)
    ELSE IF y >= 100 THEN Pad(y, 3)
    ELSE IF y >= 10 THEN Pad(y, 2) ELSE Pad(y, 1)

\* strftime("%d/%m/%Y, %H:%M:%S")
strftime_display(u) ==
    Pad(u[3], 2) \o <<47>> \o Pad(u[2], 2) \o <<47>> \o strftime_Y(u[1])
        \o <<44, 32>> \o Pad(u[4], 2) \o <<58>> \o Pad(u[5], 2) \o <<58>> \o Pad(u[6], 2)

\* strftime("D:%Y%m%d%H%M%S+03'00'")
strftime_pdf(u) ==
    <<68, 58>> \o strftime_Y(u[1]) \o Pad(u[2], 2) \o Pad(u[3], 2)
        \o Pad(u[4], 2) \o Pad(u[5], 2) \o Pad(u[6], 2)
        \o <<43, 48, 51, 39, 48, 48, 39>>

\* if s.startswith("D:"): s = s[2:]
strip_D(s) == IF StartsWith(s, <<68, 58>>) THEN SubSeq(s, 3, Len(s)) ELSE s

\* re.match(r"^(\d{4})(\d{2})(\d{2})(\d{2})(\d{2})(\d{2})", s)
match14(s) == Len(s) >= 14 /\ \A i \in 1..14 : IsDigit(s[i])

groups14(s) ==
    <<int_digits(SubSeq(s, 1, 4)), int_digits(SubSeq(s, 5, 6)),
      int_digits(SubSeq(s, 7, 8)), int_digits(SubSeq(s, 9, 10)),
      int_digits(SubSeq(s, 11, 12)), int_digits(SubSeq(s, 13, 14))>>

\* lines 109-114, s already without its D:
display_of(s) ==
    IF ~match14(s) THEN s
    ELSE IF datetime_ok(groups14(s)) THEN strftime_display(groups14(s))
    ELSE s

pdf_date_to_display_date(s) == IF s = <<>> THEN <<>> ELSE display_of(strip_D(s))

\* the index of the first c in s at or after p, 0 when there is none
Find(s, c, p) ==
    IF \E i \in p..Len(s) : s[i] = c
    THEN Min({i \in p..Len(s) : s[i] = c}) ELSE 0

\* the index of the first character at or after p that is no white space
FirstNonSpace(s, p) ==
    IF \E i \in p..Len(s) : ~IsSpace(s[i])
    THEN Min({i \in p..Len(s) : ~IsSpace(s[i])}) ELSE 0

\* the groups of the strptime pattern: %d
re_d(f) ==
    \/ Len(f) = 1 /\ f[1] \in 49..57
    \/ Len(f) = 2 /\ \/ f[1] = 51 /\ f[2] \in 48..49
                     \/ f[1] \in 49..50 /\ IsDigit(f[2])
                     \/ f[1] = 48 /\ f[2] \in 49..57
                     \/ f[1] = 32 /\ f[2] \in 49..57

\* %m
re_m(f) ==
    \/ Len(f) = 1 /\ f[1] \in 49..57
    \/ Len(f) = 2 /\ \/ f[1] = 49 /\ f[2] \in 48..50
                     \/ f[1] = 48 /\ f[2] \in 49..57

\* %Y
re_Y(f) == Len(f) = 4 /\ \A i \in 1..4 : IsDigit(f[i])

\* %H
re_H(f) ==
    \/ Len(f) = 1 /\ IsDigit(f[1])
    \/ Len(f) = 2 /\ \/ f[1] = 50 /\ f[2] \in 48..51
                     \/ f[1] \in 48..49 /\ IsDigit(f[2])

\* %M
re_M(f) ==
    \/ Len(f) = 1 /\ IsDigit(f[1])
    \/ Len(f) = 2 /\ f[1] \in 48..53 /\ IsDigit(f[2])

\* %S
re_S(f) ==
    \/ Len(f) = 1 /\ IsDigit(f[1])
    \/ Len(f) = 2 /\ \/ f[1] = 54 /\ f[2] \in 48..49
                     \/ f[1] \in 48..53 /\ IsDigit(f[2])

\* the text cut at  /  /  ,\s+  :  :  ; no group holds its own delimiter, so
\* the pattern matches the whole text exactly when every piece is its group
split6(s, i1, i2, i3, j, i4, i5) ==
    IF i5 = 0 THEN <<>>
    ELSE <<SubSeq(s, 1, i1 - 1), SubSeq(s, i1 + 1, i2 - 1), SubSeq(s, i2 + 1, i3 - 1),
           SubSeq(s, j, i4 - 1), SubSeq(s, i4 + 1, i5 - 1), SubSeq(s, i5 + 1, Len(s))>>

split5(s, i1, i2, i3, j, i4) ==
    IF i4 = 0 THEN <<>> ELSE split6(s, i1, i2, i3, j, i4, Find(s, 58, i4 + 1))

split4(s, i1, i2, i3, j) ==
    IF j = 0 \/ j = i3 + 1 THEN <<>> ELSE split5(s, i1, i2, i3, j, Find(s, 58, j))

split3(s, i1, i2, i3) ==
    IF i3 = 0 THEN <<>> ELSE split4(s, i1, i2, i3, FirstNonSpace(s, i3 + 1))

split2(s, i1, i2) ==
    IF i2 = 0 THEN <<>> ELSE split3(s, i1, i2, Find(s, 44, i2 + 1))

split1(s, i1) ==
    IF i1 = 0 THEN <<>> ELSE split2(s, i1, Find(s, 47, i1 + 1))

display_fields(s) == split1(s, Find(s, 47, 1))

\* the datetime of the groups, ValueError when it is no date or time
checked(u) == IF datetime_ok(u) THEN Ok(u) ELSE Raise("ValueError")

parsed(fs) ==
    IF fs = <<>> THEN Raise("ValueError")
    ELSE IF ~(re_d(fs[1]) /\ re_m(fs[2]) /\ re_Y(fs[3])
              /\ re_H(fs[4]) /\ re_M(fs[5]) /\ re_S(fs[6]))
    THEN Raise("ValueError")
    ELSE checked(<<int_digits(fs[3]), int_digits(fs[2]), int_day(fs[1]),
                   int_digits(fs[4]), int_digits(fs[5]), int_digits(fs[6])>>)

\* datetime.strptime(s, "%d/%m/%Y, %H:%M:%S")
strptime(s) == parsed(display_fields(s))

native_or(s, r) == IF r.ok THEN strftime_pdf(r.val) ELSE s

display_date_to_pdf_date(s) == native_or(s, strptime(s))

None == <<>>

\* (dt.date(), dt.time()) or (None, None)
date_time_or_none(r) ==
    IF r.ok THEN << <<r.val[1], r.val[2], r.val[3]>>, <<r.val[4], r.val[5], r.val[6]>> >>
    ELSE <<None, None>>

parse_display_dt(s) == date_time_or_none(strptime(Strip(s)))

md_keys(md) == [i \in 1..Len(md) |-> md[i].key]

\* md.get(k, "")
md_get(md, k) ==
    IF \E i \in 1..Len(md) : md[i].key = k
    THEN md[CHOOSE i \in 1..Len(md) : md[i].key = k].val
    ELSE <<>>

\* keys = BASE_KEYS + [k for k in md.keys() if k not in BASE_KEYS]
meta_keys_of(md) ==
    BASE_KEYS \o SelectSeq(md_keys(md), LAMBDA k : k \notin Range(BASE_KEYS))

\* the dictionary out of read_meta
meta_of(md, keys) ==
    [k \in Range(keys) |->
        IF k \in DateKeys THEN pdf_date_to_display_date(md_get(md, k))
        ELSE md_get(md, k)]

\* read_meta returns (out, keys)
read_meta(file) ==
    <<meta_of(file.metadata, meta_keys_of(file.metadata)), meta_keys_of(file.metadata)>>

\* lines 139-141: the dictionary  final  of write_meta
final(new_md) ==
    [k \in DOMAIN new_md |->
        IF k \in DateKeys THEN display_date_to_pdf_date(new_md[k]) ELSE new_md[k]]

\* the information dictionary of a new PdfWriter: /Producer "pypdf"
WriterInfo == <<[key |-> "/Producer", val |-> <<112, 121, 112, 100, 102>>]>>

\* write_meta: the pages of the file are added to a new writer and the
\* writer is written; final is built and then not given to the writer
write_meta(file, new_md) == [pages |-> file.pages, metadata |-> WriterInfo]

(***************************************************************************)
(* The PDF panel of the page, lines 172-221.                               *)
(***************************************************************************)
Has(ss, k) == k \in DOMAIN ss

\* st.session_state.get(k, d)
Get(ss, k, d) == IF Has(ss, k) THEN ss[k] ELSE d

\* st.session_state[k] = v
Put(ss, k, v) == (k :> v) @@ ss

\* st.session_state.setdefault(k, v)
setdefault(ss, k, v) == IF Has(ss, k) THEN ss ELSE Put(ss, k, v)

\* line 175
needs_read(ss, f) ==
    IF ~Has(ss, "meta_dict") THEN TRUE ELSE Get(ss, "_last_file_name", "") # f.name

\* lines 177-182; ss @@ meta is  if k not in st.session_state: ... = v
store_meta(ss, f, rm) ==
    Put(Put(Put(ss, "meta_keys", rm[2]), "meta_dict", rm[1]),
        "_last_file_name", f.name) @@ rm[1]

\* lines 183-184
set_prev(ss) ==
    setdefault(setdefault(ss, "_prev_creation", Get(ss, "/CreationDate", <<>>)),
               "_prev_mod", Get(ss, "/ModDate", <<>>))

\* lines 175-184
upload_init(ss, f) ==
    IF needs_read(ss, f) THEN set_prev(store_meta(ss, f, read_meta(f))) ELSE ss

\* line 186: a checkbox shown for the first time takes value=True
checkbox(ss) == setdefault(ss, "_auto_sync", TRUE)

\* lines 197-198
remember(ss, c_now, m_now) ==
    Put(Put(ss, "_prev_creation", c_now), "_prev_mod", m_now)

\* the block with only its first branch
sync_fields_one_way(ss, c_now, m_now, pc, pm) ==
    IF c_now # pc /\ m_now = pm
    THEN remember(Put(ss, "/ModDate", c_now), c_now, c_now)
    ELSE remember(ss, c_now, m_now)

\* lines 193-198
sync_fields(ss, c_now, m_now, pc, pm) ==
    IF c_now # pc /\ m_now = pm
    THEN remember(Put(ss, "/ModDate", c_now), c_now, c_now)
    ELSE IF m_now # pm /\ c_now = pc
    THEN remember(Put(ss, "/CreationDate", m_now), m_now, m_now)
    ELSE remember(ss, c_now, m_now)

\* lines 189-192
c_now_of(ss) == Get(ss, "/CreationDate", <<>>)

m_now_of(ss) == Get(ss, "/ModDate", <<>>)

\* lines 188-198
sync_block(ss) ==
    IF ss["_auto_sync"]
    THEN sync_fields(ss, c_now_of(ss), m_now_of(ss),
                     Get(ss, "_prev_creation", c_now_of(ss)),
                     Get(ss, "_prev_mod", m_now_of(ss)))
    ELSE ss

\* line 200
ordered(ss) ==
    <<"/ModDate", "/CreationDate">>
        \o SelectSeq(ss["meta_keys"], LAMBDA k : k \notin DateKeys)

\* line 204: a text input shown without a value in the session is empty
text_inputs(ss) ==
    ss @@ [k \in Range(ordered(ss)) |-> <<>>]

\* lines 201-205
updated(ss) == [k \in Range(ordered(ss)) |-> Get(ss, k, <<>>)]

\* the session on entry to the synchronisation block
sync_entry(ss, f) == checkbox(upload_init(ss, f))

\* lines 175-205
pdf_panel(ss, f) == text_inputs(sync_block(sync_entry(ss, f)))

\* lines 210-214
send_parsed(ss, dt) ==
    IF dt[1] # None /\ dt[2] # None
    THEN [ss EXCEPT !.qr_date = dt[1], !.qr_time = dt[2],
                    !.qr_time_hm = <<dt[2][1], dt[2][2]>>, !.qr_secs = dt[2][3]]
    ELSE ss

\* lines 207-217: the session after  if st.button("... CreationDate ... QR")
send_to_qr(ss) == send_parsed(ss, parse_display_dt(c_now_of(ss)))

PdfPage == [Nothing EXCEPT !.panel = "pdf"]

\* lines 215-217
send_page(dt) ==
    IF dt[1] # None /\ dt[2] # None THEN [PdfPage EXCEPT !.kind = "success"]
    ELSE [PdfPage EXCEPT !.kind = "error"]

\* lines 219-221: the download offered under the name of the upload
save_page(f, out) ==
    [PdfPage EXCEPT !.kind = "download",
                    !.file = [name |-> f.name, pages |-> out.pages,
                              metadata |-> out.metadata]]

\* the session after the buttons of the panel
pdf_buttons(ss, button) == IF button = "send" THEN send_to_qr(ss) ELSE ss

\* what the buttons of the panel show
pdf_page(ss, f, button) ==
    IF button = "send" THEN send_page(parse_display_dt(c_now_of(ss)))
    ELSE IF button = "save" THEN save_page(f, write_meta(f, updated(ss)))
    ELSE Nothing

\* the files of the model: their dates are
\*   "D:20240102030405+03'00'", "D:20231231235959+03'00'",
\*   "20231231235959" and "D:20240230000000" (no date)
FileA ==
    [name |-> "a.pdf", pages |-> 1,
     metadata |->
        <<[key |-> "/Title", val |-> <<65>>],
          [key |-> "/CreationDate",
           val |-> strftime_pdf(<<2023, 12, 31, 23, 59, 59>>)],
          [key |-> "/ModDate",
           val |-> strftime_pdf(<<2024, 1, 2, 3, 4, 5>>)]>>]

FileB ==
    [name |-> "b.pdf", pages |-> 2,
     metadata |->
        <<[key |-> "/CreationDate",
           val |-> <<50, 48, 50, 51, 49, 50, 51, 49, 50, 51, 53, 57, 53, 57>>],
          [key |-> "/Custom", val |-> <<233>>],
          [key |-> "/ModDate",
           val |-> <<68, 58, 50, 48, 50, 52, 48, 50, 51, 48,
                     48, 48, 48, 48, 48, 48>>]>>]

\* another file called a.pdf, without an information dictionary
FileC == [name |-> "a.pdf", pages |-> 1, metadata |-> <<>>]

Files == {FileA, FileB, FileC}

\* the keys that belong to a widget of the panel
PdfWidgetKeys ==
    {"_auto_sync"} \cup Range(BASE_KEYS)
        \cup UNION {Range(md_keys(f.metadata)) : f \in Files}

\* the widgets a run with a file shows
rendered(ss) == {"_auto_sync"} \cup Range(ordered(ss))

\* at the end of a run Streamlit drops the keys of the widgets not shown
discard(ss, keep) ==
    [k \in {x \in DOMAIN ss : x \notin PdfWidgetKeys \/ x \in keep} |-> ss[k]]

snapshot(ss) ==
    [ran |-> TRUE, auto |-> ss["_auto_sync"],
     c_now |-> c_now_of(ss), m_now |-> m_now_of(ss),
     pc |-> Get(ss, "_prev_creation", c_now_of(ss)),
     pm |-> Get(ss, "_prev_mod", m_now_of(ss))]

\* one run of the script: ss is the session with the value of the widget
\* the user acted on, f the file in the uploader, button the button pressed
Script(ss, f, button) ==
    IF f = NoFile
    THEN /\ session_state' = discard(SetQrTime(ss), {})
         /\ before_sync' = NoSync
         /\ shown' = Nothing
    ELSE /\ session_state' =
                discard(SetQrTime(pdf_buttons(pdf_panel(ss, f), button)),
                        rendered(pdf_panel(ss, f)))
         /\ before_sync' = snapshot(sync_entry(ss, f))
         /\ shown' = pdf_page(pdf_panel(ss, f), f, button)

\* "02/01/2024, 03:04:05", "1/2/2024,  3:4:5" and "x"
DateTexts ==
    {strftime_display(<<2024, 1, 2, 3, 4, 5>>),
     <<49, 47, 50, 47, 50, 48, 50, 52, 44, 32, 32, 51, 58, 52, 58, 53>>,
     <<120>>}

TitleTexts == {<<66>>}

\* the values typed into the text input k
TextsOf(k) == IF k \in DateKeys THEN DateTexts ELSE TitleTexts

\* the text inputs the user types into
EditedKeys == {"/CreationDate", "/ModDate", "/Title"}

\* a file is put into the uploader, in place of the one it holds
Upload ==
    /\ \E f \in Files : f # up /\ up' = f /\ Script(session_state, f, "none")
    /\ UNCHANGED <<call, env, ref, code128_text>>

\* the file is taken out of the uploader
RemoveFile ==
    /\ up # NoFile
    /\ up' = NoFile
    /\ Script(session_state, NoFile, "none")
    /\ UNCHANGED <<call, env, ref, code128_text>>

\* a text input of the panel takes a new value
EditMeta ==
    /\ up # NoFile
    /\ \E k \in EditedKeys, v \in DateTexts \cup TitleTexts :
          /\ v \in TextsOf(k)
          /\ v # session_state[k]
          /\ Script(Put(session_state, k, v), up, "none")
    /\ UNCHANGED <<call, env, ref, code128_text, up>>

\* the checkbox is ticked or cleared
ToggleAuto ==
    /\ up # NoFile
    /\ Script(Put(session_state, "_auto_sync", ~session_state["_auto_sync"]), up, "none")
    /\ UNCHANGED <<call, env, ref, code128_text, up>>

ClickSend ==
    /\ up # NoFile
    /\ Script(session_state, up, "send")
    /\ UNCHANGED <<call, env, ref, code128_text, up>>

ClickSave ==
    /\ up # NoFile
    /\ Script(session_state, up, "save")
    /\ UNCHANGED <<call, env, ref, code128_text, up>>

PdfInit == call = NoCall /\ PageIdle

PdfNext ==
    \/ Upload \/ RemoveFile \/ EditMeta \/ ToggleAuto \/ ClickSend \/ ClickSave

SpecPdf == PdfInit /\ [][PdfNext]_vars

(***************************************************************************)
(* Decoders, used to state the claims.                                     *)
(***************************************************************************)
RECURSIVE SumRange(_, _, _)
SumRange(f, lo, hi) ==
    IF lo > hi THEN 0
    ELSE IF lo = hi THEN f[lo]
    ELSE LET mid == (lo + hi) \div 2
         IN  SumRange(f, lo, mid) + SumRange(f, mid + 1, hi)

\* the number of bytes UTF-8 needs for a code point
CpWidth(cp) ==
    IF cp <= 127 THEN 1 ELSE IF cp <= 2047 THEN 2 ELSE IF cp <= 65535 THEN 3 ELSE 4

ByteLen(s) == SumRange([i \in 1..Len(s) |-> CpWidth(s[i])], 1, Len(s))

IsLead(b) == b < 128 \/ b >= 192

LeadWidth(b) == IF b < 128 THEN 1 ELSE IF b < 224 THEN 2 ELSE IF b < 240 THEN 3 ELSE 4

\* the code point whose encoding starts at byte p
DecodeAt(bs, p) ==
    LET w == LeadWidth(bs[p])
        c(k) == bs[p + k] - 128
    IN  IF w = 1 THEN bs[p]
        ELSE IF w = 2 THEN ((bs[p] - 192) * 64) + c(1)
        ELSE IF w = 3 THEN ((bs[p] - 224) * 4096) + (c(1) * 64) + c(2)
        ELSE ((bs[p] - 240) * 262144) + (c(1) * 4096) + (c(2) * 64) + c(3)

WellFormedUtf8(bs) ==
    \A p \in 1..Len(bs) :
        /\ bs[p] \in 0..255
        /\ IsLead(bs[p]) =>
            /\ p + LeadWidth(bs[p]) - 1 <= Len(bs)
            /\ \A k \in 1..(LeadWidth(bs[p]) - 1) : ~IsLead(bs[p + k])
            /\ p + LeadWidth(bs[p]) <= Len(bs) => IsLead(bs[p + LeadWidth(bs[p])])
        /\ p = 1 => IsLead(bs[p])

\* the code points whose encodings start in bytes lo..hi
RECURSIVE DecodeRange(_, _, _)
DecodeRange(bs, lo, hi) ==
    IF lo > hi THEN <<>>
    ELSE IF lo = hi THEN (IF IsLead(bs[lo]) THEN <<DecodeAt(bs, lo)>> ELSE <<>>)
    ELSE LET mid == (lo + hi) \div 2
         IN  DecodeRange(bs, lo, mid) \o DecodeRange(bs, mid + 1, hi)

DecodeUtf8(bs) == DecodeRange(bs, 1, Len(bs))

\* the TLV records of a byte sequence, read from byte p on
RECURSIVE ParseTlvs(_, _)
ParseTlvs(bs, p) ==
    IF p > Len(bs) THEN <<>>
    ELSE IF p + 1 > Len(bs) \/ p + 1 + bs[p + 1] > Len(bs)
        THEN << [tag |-> -1, val |-> <<>>] >>
    ELSE << [tag |-> bs[p], val |-> SubSeq(bs, p + 2, p + 1 + bs[p + 1])] >>
            \o ParseTlvs(bs, p + 2 + bs[p + 1])

B64Val(c) ==
    IF c \in 65..90 THEN c - 65
    ELSE IF c \in 97..122 THEN c - 97 + 26
    ELSE IF c \in 48..57 THEN c - 48 + 52
    ELSE IF c = 43 THEN 62
    ELSE IF c = 47 THEN 63
    ELSE -1

\* the padding '=' signs at the end of a base64 text
B64Pad(t) ==
    IF Len(t) >= 2 /\ t[Len(t)] = 61 /\ t[Len(t) - 1] = 61 THEN 2
    ELSE IF Len(t) >= 1 /\ t[Len(t)] = 61 THEN 1 ELSE 0

WellFormedB64(t) ==
    /\ Len(t) % 4 = 0
    /\ \A k \in 1..(Len(t) - B64Pad(t)) : B64Val(t[k]) >= 0

B64Decode(t) ==
    LET v(k) == IF k <= Len(t) - B64Pad(t) THEN B64Val(t[k]) ELSE 0
        Byte(g, r) ==
            LET k == 4 * (g - 1)
            IN  IF r = 0 THEN (v(k + 1) * 4) + (v(k + 2) \div 16)
                ELSE IF r = 1 THEN ((v(k + 2) % 16) * 16) + (v(k + 3) \div 4)
                ELSE ((v(k + 3) % 4) * 64) + v(k + 4)
    IN  [i \in 1..(3 * (Len(t) \div 4) - B64Pad(t)) |->
            Byte(((i - 1) \div 3) + 1, (i - 1) % 3)]

(***************************************************************************)
(* Claims about _tlv and build_zatca_base64.                               *)
(***************************************************************************)
IsTlvReturn == call.fn = "_tlv" /\ call.done

IsBuildReturn == call.fn = "build_zatca_base64" /\ call.done

\* C1: for a tag in 1..255 and a value of at most 255 UTF-8 bytes, _tlv
\* returns the tag byte, a length byte equal to the byte length of the value,
\* and then exactly the UTF-8 bytes of the value: decoding the output gives
\* back the tag and the value.
C1_TlvRoundTrip ==
    (IsTlvReturn /\ call.args[1] \in 1..255 /\ ByteLen(call.args[2]) <= 255) =>
        /\ call.ret.ok
        /\ LET out == call.ret.val
           IN  /\ Len(out) = 2 + ByteLen(call.args[2])
               /\ out[1] = call.args[1]
               /\ out[2] = ByteLen(call.args[2])
               /\ WellFormedUtf8(SubSeq(out, 3, Len(out)))
               /\ DecodeUtf8(SubSeq(out, 3, Len(out))) = call.args[2]

\* a value of several multi-byte characters that fills the length byte
C1_Witness ==
    /\ IsTlvReturn /\ call.ret.ok
    /\ call.args[1] = 255
    /\ Len(call.args[2]) = 85 /\ ByteLen(call.args[2]) = 255

\* C2: when any of the five fields is longer than 255 UTF-8 bytes,
\* build_zatca_base64 raises ValueError and returns nothing, whichever field
\* it is; so does _tlv on its own.
C2_OversizeAllOrNothing ==
    /\ (IsBuildReturn /\ \E i \in 1..5 : ByteLen(call.args[i]) > 255) =>
            ~call.ret.ok /\ call.ret.exc = "ValueError" /\ call.ret.val = <<>>
    /\ (IsTlvReturn /\ ByteLen(call.args[2]) > 255) =>
            ~call.ret.ok /\ call.ret.exc = "ValueError" /\ call.ret.val = <<>>

\* only the last field is oversized, the four before it fit
C2_Witness ==
    /\ IsBuildReturn /\ ~call.ret.ok
    /\ ByteLen(call.args[5]) = 256
    /\ \A i \in 1..4 : ByteLen(call.args[i]) \in 1..255

\* C3: a payload build_zatca_base64 returns is base64 text that decodes to
\* exactly five TLV records, tags 1, 2, 3, 4, 5 in this order, carrying the
\* seller, the VAT number, the timestamp, the total and the VAT amount.
C3_FiveFieldsInOrder ==
    (IsBuildReturn /\ call.ret.ok) =>
        /\ WellFormedB64(call.ret.val)
        /\ LET recs == ParseTlvs(B64Decode(call.ret.val), 1)
           IN  /\ Len(recs) = 5
               /\ \A i \in 1..5 :
                    /\ recs[i].tag = i
                    /\ WellFormedUtf8(recs[i].val)
                    /\ DecodeUtf8(recs[i].val) = call.args[i]

\* five different fields, one of them of the full 255 bytes
C3_Witness ==
    /\ IsBuildReturn /\ call.ret.ok
    /\ ByteLen(call.args[1]) = 255
    /\ call.args[4] # call.args[5]
    /\ Len(call.args[5]) > 0 /\ Len(call.args[4]) > 0

(***************************************************************************)
(* Claim about _fmt2.                                                      *)
(***************************************************************************)
IsFmtReturn == call.fn = "_fmt2" /\ call.done

Unsigned(t) == IF Len(t) >= 1 /\ t[1] = 45 THEN SubSeq(t, 2, Len(t)) ELSE t

\* an optional minus, at least one digit, a point and exactly two digits
TwoFractionDigits(t) ==
    LET u == Unsigned(t)
    IN  /\ Len(u) >= 4
        /\ u[Len(u) - 2] = 46
        /\ \A i \in 1..Len(u) : i # Len(u) - 2 => IsAsciiDigit(u[i])

\* plain decimal notation: an optional minus, digits, at most one point
PlainDecimal(x) ==
    LET u == Unsigned(x)
    IN  /\ Len(u) \in 1..6
        /\ \A i \in 1..Len(u) : IsAsciiDigit(u[i]) \/ u[i] = 46
        /\ Cardinality({i \in 1..Len(u) : u[i] = 46}) <= 1
        /\ \E i \in 1..Len(u) : IsAsciiDigit(u[i])

\* the result is the number x rounded to hundredths, a tie away from zero
RoundedHalfUp(x, t) ==
    LET u == Unsigned(x)
        dots == {i \in 1..Len(u) : u[i] = 46}
        f == IF dots = {} THEN 0 ELSE Len(u) - (CHOOSE i \in dots : TRUE)
        n == DigitsVal(ToDigits(SelectSeqIdx(u, {i \in 1..Len(u) : u[i] # 46})))
        r == DigitsVal(ToDigits(SelectSeqIdx(Unsigned(t),
                                    {i \in 1..Len(Unsigned(t)) : Unsigned(t)[i] # 46})))
    IN  /\ r = ((n * 200) + Pow10(f)) \div (2 * Pow10(f))
        /\ (Len(t) >= 1 /\ t[1] = 45) <=> (Len(x) >= 1 /\ x[1] = 45)

\* C5: _fmt2 never raises; it returns a text with exactly two fraction
\* digits, the number rounded half-up when the input is a decimal number and
\* "0.00" when the input is no number.
C5_Fmt2TotalTwoDigits ==
    IsFmtReturn =>
        /\ call.ret.ok
        /\ TwoFractionDigits(call.ret.val)
        /\ PlainDecimal(call.args[1]) => RoundedHalfUp(call.args[1], call.ret.val)
        /\ (\A i \in 1..Len(call.args[1]) : DecimalDigit(call.args[1][i]) < 0) =>
                call.ret.val = <<48, 46, 48, 48>>

(***************************************************************************)
(* Claims about the QR panel.                                              *)
(***************************************************************************)
\* the run of the QR button put base64 text or an image on the page
QrEmitted == shown.panel = "qr" /\ (shown.text # <<>> \/ shown.image # <<>>)

\* the text of field i of the payload on the page
PayloadField(i) == DecodeUtf8(ParseTlvs(B64Decode(shown.text), 1)[i].val)

AsciiDigitsOf(v) == SelectSeqIdx(v, {i \in 1..Len(v) : IsAsciiDigit(v[i])})

\* C4: the QR button emits a payload only when the tag-2 field is exactly 15
\* ASCII digits; for every other VAT input it shows the length error and
\* emits neither base64 text nor an image.
C4_VatLengthGate ==
    /\ QrEmitted => (Len(PayloadField(2)) = 15 /\ AllDigits(PayloadField(2)))
    /\ (shown.panel = "qr" /\ Len(AsciiDigitsOf(session_state.qr_vat_number)) # 15) =>
            (shown.kind = "error" /\ ~QrEmitted)

\* C6: the seller name of an emitted payload is not empty and has no
\* whitespace at either end; an empty or whitespace-only seller input never
\* gives a payload.
C6_SellerNonEmptyTrimmed ==
    /\ QrEmitted =>
            /\ PayloadField(1) # <<>>
            /\ ~IsSpace(PayloadField(1)[1])
            /\ ~IsSpace(PayloadField(1)[Len(PayloadField(1))])
    /\ (shown.panel = "qr"
            /\ \A i \in 1..Len(session_state.qr_seller) : IsSpace(session_state.qr_seller[i]))
        => ~QrEmitted

\* C8: two generations with the same six inputs show the same base64 text
\* (and so the same TLV bytes), whatever happened in between and on whatever
\* host they run.
C8_Deterministic ==
    (ref.set /\ shown.panel = "qr" /\ SixInputs(session_state) = ref.in) =>
        (shown.text = ref.out.text /\ shown.kind = ref.out.kind)

(***************************************************************************)
(* Claim about the Code-128 panel.                                         *)
(***************************************************************************)
\* render_code128 was called in the last run, with shown.text
Rendered == shown.panel = "code128" /\ shown.kind = "ok"

\* the digits of a text, the Arabic-Indic ones as their ASCII digits
DigitsAsAscii(v) ==
    translate_arabic(SelectSeqIdx(v,
        {i \in 1..Len(v) : IsAsciiDigit(v[i]) \/ v[i] \in 1632..1641}))

\* a character that survives the cleaning: ASCII and no space, or an
\* Arabic-Indic digit
Survives(c) == (c < 128 /\ ~IsSpace(c)) \/ c \in 1632..1641

\* C9: render_code128 is called only with a text that is not empty, all
\* ASCII, free of bidirectional controls and of whitespace at both ends, and
\* that holds the digits of the input with the Arabic-Indic ones replaced;
\* when nothing of the input survives the cleaning, the renderer is not
\* called and the error is shown.
C9_Code128Precondition ==
    /\ Rendered =>
            /\ shown.text # <<>>
            /\ \A i \in 1..Len(shown.text) :
                    shown.text[i] < 128 /\ ~IsBidiControl(shown.text[i])
            /\ ~IsSpace(shown.text[1]) /\ ~IsSpace(shown.text[Len(shown.text)])
            /\ AsciiDigitsOf(shown.text) = DigitsAsAscii(code128_text)
    /\ shown.panel = "code128" =>
            ((\A i \in 1..Len(code128_text) : ~Survives(code128_text[i]))
                <=> (shown.kind = "error" /\ shown.image = <<>>))

\* an Arabic-Indic digit between a bidirectional control and a space
C9_Witness ==
    /\ Rendered
    /\ code128_text = <<8206, 1635, 32>>
    /\ shown.text = <<51>>

\* nothing survives the cleaning and the error is shown
C9_WitnessEmpty ==
    /\ shown.panel = "code128" /\ shown.kind = "error"
    /\ Len(code128_text) = MaxCodeLen

(***************************************************************************)
(* Claims about the PDF panel.                                             *)
(***************************************************************************)
\* the last run saved: write_meta was called with the file in the uploader
\* and the mapping of the text inputs, and its result is offered
Saved == shown.panel = "pdf" /\ shown.kind = "download"

\* the mapping the last run gave to write_meta
Supplied == updated(session_state)

\* D:YYYYMMDDHHMMSS
NativeForm(u) ==
    <<68, 58>> \o Pad(u[1], 4) \o Pad(u[2], 2) \o Pad(u[3], 2)
        \o Pad(u[4], 2) \o Pad(u[5], 2) \o Pad(u[6], 2)

\* the document holds key k with the value v
Holds(md, k, v) == \E i \in 1..Len(md) : md[i].key = k /\ md[i].val = v

\* the document holds key k with a date that starts with the native form of
\* the display text v (a zone may follow)
HoldsDate(md, k, v) ==
    \E i \in 1..Len(md) :
        md[i].key = k /\ StartsWith(md[i].val, NativeForm(strptime(v).val))

\* C7: every key of the mapping given to write_meta is in the metadata of
\* the document it returns, with the value of the mapping; the values of
\* /CreationDate and /ModDate that are in the display format are there in
\* the form D:YYYYMMDDHHMMSS.
C7_WriteMetaStoresMapping ==
    Saved =>
        \A k \in DOMAIN Supplied :
            IF k \in DateKeys /\ strptime(Supplied[k]).ok
            THEN HoldsDate(shown.file.metadata, k, Supplied[k])
            ELSE Holds(shown.file.metadata, k, Supplied[k])

\* a save that was given a title and a creation date in the display format
C7_Witness ==
    /\ Saved
    /\ Supplied["/Title"] # <<>>
    /\ strptime(Supplied["/CreationDate"]).ok

\* the date fields and the remembered values at the end of the last run
CreationDate == session_state["/CreationDate"]

ModDate == session_state["/ModDate"]

OnlyCreationChanged ==
    before_sync.c_now # before_sync.pc /\ before_sync.m_now = before_sync.pm

OnlyModChanged ==
    before_sync.m_now # before_sync.pm /\ before_sync.c_now = before_sync.pc

\* C10: in a run that reaches the synchronisation block with the checkbox
\* on, when exactly one of /CreationDate and /ModDate differs from the value
\* remembered for it, the other field takes the changed value and the two
\* are equal afterwards; when both or none differ, both fields keep their
\* values; in every case the remembered values are the fields afterwards.
\* With the checkbox off, the fields and the remembered values stay as
\* they were.
C10_BidirectionalSync ==
    before_sync.ran =>
        IF before_sync.auto
        THEN /\ OnlyCreationChanged =>
                    (CreationDate = before_sync.c_now /\ ModDate = before_sync.c_now)
             /\ OnlyModChanged =>
                    (ModDate = before_sync.m_now /\ CreationDate = before_sync.m_now)
             /\ (~OnlyCreationChanged /\ ~OnlyModChanged) =>
                    (CreationDate = before_sync.c_now /\ ModDate = before_sync.m_now)
             /\ session_state["_prev_creation"] = CreationDate
             /\ session_state["_prev_mod"] = ModDate
        ELSE /\ CreationDate = before_sync.c_now
             /\ ModDate = before_sync.m_now
             /\ session_state["_prev_creation"] = before_sync.pc
             /\ session_state["_prev_mod"] = before_sync.pm

\* only /ModDate was changed and /CreationDate has taken its value
C10_Witness ==
    /\ before_sync.ran /\ before_sync.auto
    /\ OnlyModChanged
    /\ before_sync.c_now # before_sync.m_now
    /\ CreationDate = before_sync.m_now

\* only /CreationDate was changed and /ModDate has taken its value
C10_WitnessCreation ==
    /\ before_sync.ran /\ before_sync.auto
    /\ OnlyCreationChanged
    /\ before_sync.c_now # before_sync.m_now
    /\ ModDate = before_sync.c_now

\* both fields differ from the remembered values, and from each other
C10_WitnessBoth ==
    /\ before_sync.ran /\ before_sync.auto
    /\ before_sync.c_now # before_sync.pc /\ before_sync.m_now # before_sync.pm
    /\ before_sync.c_now # before_sync.m_now

\* the checkbox is off and a field differs from its remembered value
C10_WitnessOff ==
    /\ before_sync.ran /\ ~before_sync.auto
    /\ before_sync.c_now # before_sync.pc

=============================================================================
